---- MODULE Spec2Model ----
(***************************************************************************)
(* Keyboard navigation of the flame graph (FlameGraphImpl, part_000) and   *)
(* the sample heights of the stack graph (ThreadStackGraph, StackGraph.js).*)
(*                                                                         *)
(* JavaScript arrays are modelled as TLA+ sequences read through At, which *)
(* keeps the 0-based indices of the source and yields `undefined` outside  *)
(* the array, as an array read does.  Box offsets are exact integers in    *)
(* thousandths of the viewport, so that 0.001 is the integer 1.            *)
(***************************************************************************)
EXTENDS Integers, Sequences, FiniteSets, TLC

VARIABLES
    callNodeTable,              \* props.callNodeInfo.callNodeTable
    flameGraphTiming,           \* props.flameGraphTiming, one row per depth
    selectedCallNodeIndex,      \* props.selectedCallNodeIndex
    rightClickedCallNodeIndex,  \* props.rightClickedCallNodeIndex
    lastEvent,                  \* the last callback run, with the props it saw
    dispatched,                 \* the actions that callback dispatched, in order
    consoleErrors,              \* console.error calls of that callback
    scanSteps,                  \* iterations of the do/while loop in that callback
    consulted,                  \* collaborators that callback read directly
    previousMove,               \* the horizontal move made by the callback before
    sampleCallNodes,            \* ThreadStackGraph props.sampleCallNodes
    maxValue,                   \* maxValue handed to ThreadHeightGraph by render
    lastHeight                  \* the last heightFunc call and its result

vars == <<callNodeTable, flameGraphTiming, selectedCallNodeIndex,
          rightClickedCallNodeIndex, lastEvent, dispatched, consoleErrors,
          scanSteps, consulted, previousMove, sampleCallNodes, maxValue,
          lastHeight>>

flameVars == <<flameGraphTiming, selectedCallNodeIndex,
               rightClickedCallNodeIndex, lastEvent, dispatched, consoleErrors,
               scanSteps, consulted, previousMove>>

stackVars == <<sampleCallNodes, maxValue, lastHeight>>

(***************************************************************************)
(* Bounds of the model.                                                    *)
(***************************************************************************)
MaxNodes == 3       \* call nodes in a call-node table
MaxSamples == 2     \* samples of the stack graph

(***************************************************************************)
(* JavaScript values.  TLC compares an integer only with an integer, so    *)
(* the three non-numbers are integers that no index, depth, function or    *)
(* offset of the model takes (those are all >= -2).                        *)
(***************************************************************************)
null == -7
undefined == -8
NaN == -9

IsNumber(a) == a \notin {null, undefined, NaN}

\* arr[i] of a JavaScript array: undefined outside 0 .. length-1.
At(arr, i) == IF i \in 0..(Len(arr) - 1) THEN arr[i + 1] ELSE undefined

\* arr.indexOf(x)
indexOf(arr, x) ==
    IF \E i \in 1..Len(arr) : arr[i] = x
    THEN (CHOOSE i \in 1..Len(arr) :
              arr[i] = x /\ \A j \in 1..(i - 1) : arr[j] # x) - 1
    ELSE -1

\* a - b on numbers or undefined
Minus(a, b) == IF IsNumber(a) /\ IsNumber(b) THEN a - b ELSE NaN

\* a > b, false when a is NaN
GreaterThan(a, b) == IsNumber(a) /\ a > b

\* 0.001, in thousandths of the viewport
SELECTABLE_THRESHOLD == 1

(***************************************************************************)
(* The data the components receive as props.  It is computed outside the   *)
(* two components, so the model enumerates it: every call-node table of up *)
(* to MaxNodes nodes in which a node's prefix precedes it, and for such a  *)
(* table every flame graph with one row per depth, a row holding any       *)
(* subset of the nodes of its depth, each with a box that is either        *)
(* exactly SELECTABLE_THRESHOLD wide or wider, the only distinction        *)
(* FlameGraphImpl makes.  A node without samples has no box.  The offsets  *)
(* of a row enter the components only through end - start, so a row is     *)
(* laid out from offset 0.                                                 *)
(***************************************************************************)
RECURSIVE PrefixColumns(_)
PrefixColumns(n) ==
    IF n = 0 THEN {<<>>}
    ELSE {Append(p, x) : p \in PrefixColumns(n - 1),
                         x \in (IF n = 1 THEN {-1} ELSE {-1} \cup (0..(n - 2)))}

RECURSIVE DepthOf(_, _)
DepthOf(prefix, i) ==
    IF prefix[i + 1] = -1 THEN 0 ELSE 1 + DepthOf(prefix, prefix[i + 1])

CallNodeTableOf(prefix) ==
    [prefix |-> prefix,
     depth  |-> [i \in 1..Len(prefix) |-> DepthOf(prefix, i - 1)],
     func   |-> [i \in 1..Len(prefix) |-> i - 1],
     length |-> Len(prefix)]

CallNodeTables(minLength) ==
    {CallNodeTableOf(p) : p \in UNION {PrefixColumns(n) : n \in minLength..MaxNodes}}

CallNodes(table) == 0..(table.length - 1)

NodesAtDepth(table, d) == {n \in CallNodes(table) : table.depth[n + 1] = d}

MaxDepthOf(table) ==
    IF table.length = 0 THEN -1
    ELSE CHOOSE d \in 0..table.length :
             /\ \E n \in CallNodes(table) : table.depth[n + 1] = d
             /\ \A n \in CallNodes(table) : table.depth[n + 1] <= d

\* The orders in which the nodes of S can stand in a row: all of them (the
\* flame graph orders siblings by function name).
Orders(S) ==
    {s \in [1..Cardinality(S) -> S] : \A i, j \in 1..Cardinality(S) : s[i] = s[j] => i = j}

\* The widths of a box: exactly the threshold, and just above it.
Widths == SELECTABLE_THRESHOLD..(SELECTABLE_THRESHOLD + 1)

RECURSIVE SumOf(_, _)
SumOf(widths, k) == IF k = 0 THEN 0 ELSE widths[k] + SumOf(widths, k - 1)

\* A row of boxes laid side by side: parallel arrays start, end, callNode.
RowOf(order, widths) ==
    [start    |-> [i \in 1..Len(order) |-> SumOf(widths, i - 1)],
     end      |-> [i \in 1..Len(order) |-> SumOf(widths, i)],
     callNode |-> order]

RowsOver(S) ==
    UNION {{RowOf(order, widths) : order \in Orders(P),
                                   widths \in [1..Cardinality(P) -> Widths]}
           : P \in SUBSET S}

RECURSIVE TimingsUpTo(_, _)
TimingsUpTo(table, d) ==
    IF d < 0 THEN {<<>>}
    ELSE {Append(t, r) : t \in TimingsUpTo(table, d - 1),
                         r \in RowsOver(NodesAtDepth(table, d))}

\* The column of node n in its row of `timing`, -1 without a box.
BoxColumn(table, timing, n) == indexOf(timing[table.depth[n + 1] + 1].callNode, n)

\* The width of the box of node n, 0 without a box.
BoxWidthIn(table, timing, n) ==
    LET row == timing[table.depth[n + 1] + 1]
        col == BoxColumn(table, timing, n)
    IN  IF col = -1 THEN 0 ELSE row.end[col + 1] - row.start[col + 1]

\* What a flame graph of a thread with samples looks like: the boxes of the
\* roots fill the viewport, so one of them is wide; a box lies on the box of
\* its parent and is not wider; and the boxes above one parent stand
\* together, in the order of the parents.
IsFlameGraph(table, timing) ==
    /\ \E n \in NodesAtDepth(table, 0) :
           BoxWidthIn(table, timing, n) > SELECTABLE_THRESHOLD
    /\ \A n \in CallNodes(table) :
           table.prefix[n + 1] # -1 =>
               BoxWidthIn(table, timing, n) <=
                   BoxWidthIn(table, timing, table.prefix[n + 1])
    /\ \A a, b \in CallNodes(table) :
           (/\ table.depth[a + 1] = table.depth[b + 1]
            /\ table.prefix[a + 1] # table.prefix[b + 1]
            /\ table.prefix[a + 1] # -1
            /\ table.prefix[b + 1] # -1
            /\ BoxColumn(table, timing, a) # -1
            /\ BoxColumn(table, timing, b) # -1
            /\ BoxColumn(table, timing, a) < BoxColumn(table, timing, b)) =>
               BoxColumn(table, timing, table.prefix[a + 1]) <
                   BoxColumn(table, timing, table.prefix[b + 1])

FlameGraphTimings(table) ==
    {timing \in TimingsUpTo(table, MaxDepthOf(table)) : IsFlameGraph(table, timing)}

(***************************************************************************)
(* Collaborators of FlameGraphImpl: profile-data, the call tree and the    *)
(* store that turns a dispatched call-node path into the next props.       *)
(***************************************************************************)
\* getCallNodePathFromIndex: the functions from the root down to the node.
RECURSIVE getCallNodePathFromIndex(_, _)
getCallNodePathFromIndex(callNodeIndex, table) ==
    IF callNodeIndex = null THEN <<>>
    ELSE IF At(table.prefix, callNodeIndex) = -1
         THEN <<At(table.func, callNodeIndex)>>
         ELSE Append(getCallNodePathFromIndex(At(table.prefix, callNodeIndex), table),
                     At(table.func, callNodeIndex))

\* The selector behind props.selectedCallNodeIndex: the node a path names.
getCallNodeIndexFromPath(path, table) ==
    IF \E n \in CallNodes(table) : getCallNodePathFromIndex(n, table) = path
    THEN CHOOSE n \in CallNodes(table) : getCallNodePathFromIndex(n, table) = path
    ELSE null

\* Width of the node's box, 0 for a node without a box: its share of the time.
BoxWidth(n) ==
    LET row == At(flameGraphTiming, At(callNodeTable.depth, n))
        col == indexOf(row.callNode, n)
    IN  IF col = -1 THEN 0 ELSE At(row.end, col) - At(row.start, col)

ChildrenOf(n) == {c \in CallNodes(callNodeTable) : At(callNodeTable.prefix, c) = n}

\* callTree.getChildren: the children by descending total time, a stable sort
\* of the children in table order.
getChildren(n) ==
    CHOOSE s \in Orders(ChildrenOf(n)) :
        \A i, j \in 1..Len(s) :
            i < j => \/ BoxWidth(s[i]) > BoxWidth(s[j])
                     \/ (BoxWidth(s[i]) = BoxWidth(s[j]) /\ s[i] < s[j])

\* callTree.getBottomBoxInfoForCallNode: opaque, identified by its node.
getBottomBoxInfoForCallNode(callNodeIndex) == callNodeIndex

(***************************************************************************)
(* The actions FlameGraphImpl dispatches.                                  *)
(***************************************************************************)
changeSelectedCallNode(path) ==
    [type |-> "changeSelectedCallNode", path |-> path, callNode |-> null, key |-> ""]

changeRightClickedCallNode(path) ==
    [type |-> "changeRightClickedCallNode", path |-> path, callNode |-> null, key |-> ""]

updateBottomBoxContentsAndMaybeOpen(bottomBoxInfo) ==
    [type |-> "updateBottomBoxContentsAndMaybeOpen", path |-> <<>>,
     callNode |-> bottomBoxInfo, key |-> "flame-graph"]

handleCallNodeTransformShortcut(key, nodeIndex) ==
    [type |-> "handleCallNodeTransformShortcut", path |-> <<>>,
     callNode |-> nodeIndex, key |-> key]

\* What one callback did: its dispatches, console.error calls, loop
\* iterations and the collaborators it read.
Outcome(d, e, s, c) ==
    [dispatched |-> d, consoleErrors |-> e, scanSteps |-> s, consulted |-> c]

(***************************************************************************)
(* FlameGraphImpl.                                                         *)
(***************************************************************************)
ArrowKeys == {"ArrowDown", "ArrowUp", "ArrowLeft", "ArrowRight"}

\* The keys of the model: the four arrows, Enter and one transform shortcut.
Keys == ArrowKeys \cup {"Enter", "f"}

\* row.end[columnIndex] - row.start[columnIndex] > SELECTABLE_THRESHOLD
boxIsWide(row, columnIndex) ==
    GreaterThan(Minus(At(row.end, columnIndex), At(row.start, columnIndex)),
                SELECTABLE_THRESHOLD)

wideEnough(callNodeIndex) ==
    LET depth == At(callNodeTable.depth, callNodeIndex)
        row == At(flameGraphTiming, depth)
        columnIndex == indexOf(row.callNode, callNodeIndex)
    IN  boxIsWide(row, columnIndex)

\* Mutant of scanRow: the loop goes on while the column is below the length
\* of the row, not while it finds a call node.
RECURSIVE scanRowWhileBelowLength(_, _, _, _)
scanRowWhileBelowLength(row, columnIndex, direction, steps) ==
    LET nextColumn == columnIndex + direction
        callNodeIndex == At(row.callNode, nextColumn)
    IN  IF boxIsWide(row, nextColumn)
        THEN [callNodeIndex |-> callNodeIndex, steps |-> steps + 1]
        ELSE IF nextColumn < Len(row.callNode) /\ steps + 1 < Len(row.callNode) + 2
             THEN scanRowWhileBelowLength(row, nextColumn, direction, steps + 1)
             ELSE [callNodeIndex |-> undefined, steps |-> steps + 1]

\* The do/while loop of _nextSelectableInRow, from the column it stands on.
\* The recursion of the model is cut after Len(row.callNode) + 2 iterations,
\* which the loop of the source never needs.
RECURSIVE scanRow(_, _, _, _)
scanRow(row, columnIndex, direction, steps) ==
    LET nextColumn == columnIndex + direction
        callNodeIndex == At(row.callNode, nextColumn)
    IN  IF boxIsWide(row, nextColumn)
        THEN [callNodeIndex |-> callNodeIndex, steps |-> steps + 1]
        ELSE IF callNodeIndex # undefined /\ steps + 1 < Len(row.callNode) + 2
             THEN scanRow(row, nextColumn, direction, steps + 1)
             ELSE [callNodeIndex |-> callNodeIndex, steps |-> steps + 1]

\* Mutant of nextSelectableInRow: the call node index is taken for the column.
nextSelectableInRowFromNodeIndex(startingCallNodeIndex, direction) ==
    LET depth == At(callNodeTable.depth, startingCallNodeIndex)
        row == At(flameGraphTiming, depth)
    IN  scanRow(row, startingCallNodeIndex, direction, 0)

\* Mutant of nextSelectableInRow: the loop always steps to the right.
nextSelectableInRowIgnoringDirection(startingCallNodeIndex, direction) ==
    LET depth == At(callNodeTable.depth, startingCallNodeIndex)
        row == At(flameGraphTiming, depth)
        columnIndex == indexOf(row.callNode, startingCallNodeIndex)
    IN  scanRow(row, columnIndex, 1, 0)

nextSelectableInRow(startingCallNodeIndex, direction) ==
    LET depth == At(callNodeTable.depth, startingCallNodeIndex)
        row == At(flameGraphTiming, depth)
        columnIndex == indexOf(row.callNode, startingCallNodeIndex)
    IN  scanRow(row, columnIndex, direction, 0)

onCallNodeEnterOrDoubleClick(callNodeIndex) ==
    IF callNodeIndex = null
    THEN Outcome(<<>>, 0, 0, {})
    ELSE Outcome(<<updateBottomBoxContentsAndMaybeOpen(
                       getBottomBoxInfoForCallNode(callNodeIndex))>>, 0, 0, {})

\* Mutant of arrowDown: the test is prefix > 0, which leaves out call node 0.
arrowDownUnlessPrefixIsZero ==
    LET prefix == At(callNodeTable.prefix, selectedCallNodeIndex)
    IN  IF prefix > 0
        THEN Outcome(<<changeSelectedCallNode(
                           getCallNodePathFromIndex(prefix, callNodeTable))>>,
                     0, 0, {"prefix"})
        ELSE Outcome(<<>>, 0, 0, {"prefix"})

arrowDown ==
    LET prefix == At(callNodeTable.prefix, selectedCallNodeIndex)
    IN  IF prefix # -1
        THEN Outcome(<<changeSelectedCallNode(
                           getCallNodePathFromIndex(prefix, callNodeTable))>>,
                     0, 0, {"prefix"})
        ELSE Outcome(<<>>, 0, 0, {"prefix"})

\* Mutant of arrowUp: the first child is selected whatever its width.
arrowUpWithoutWidthCheck ==
    LET callNodeIndex == At(getChildren(selectedCallNodeIndex), 0)
    IN  IF callNodeIndex # undefined
        THEN Outcome(<<changeSelectedCallNode(
                           getCallNodePathFromIndex(callNodeIndex, callNodeTable))>>,
                     0, 0, {"children"})
        ELSE Outcome(<<>>, 0, 0, {"children"})

arrowUp ==
    LET callNodeIndex == At(getChildren(selectedCallNodeIndex), 0)
    IN  IF callNodeIndex # undefined
        THEN IF wideEnough(callNodeIndex)
             THEN Outcome(<<changeSelectedCallNode(
                                getCallNodePathFromIndex(callNodeIndex, callNodeTable))>>,
                          0, 0, {"children", "timing"})
             ELSE Outcome(<<>>, 0, 0, {"children", "timing"})
        ELSE Outcome(<<>>, 0, 0, {"children"})

arrowLeftRight(key) ==
    LET found == nextSelectableInRow(selectedCallNodeIndex,
                                     IF key = "ArrowLeft" THEN -1 ELSE 1)
    IN  IF found.callNodeIndex # undefined
        THEN Outcome(<<changeSelectedCallNode(
                           getCallNodePathFromIndex(found.callNodeIndex, callNodeTable))>>,
                     0, found.steps, {"timing"})
        ELSE Outcome(<<>>, 0, found.steps, {"timing"})

\* switch (event.key) of _handleKeyDown
arrowSwitch(key) ==
    CASE key = "ArrowDown" -> arrowDown
      [] key = "ArrowUp" -> arrowUp
      [] key \in {"ArrowLeft", "ArrowRight"} -> arrowLeftRight(key)
      [] OTHER -> Outcome(<<>>, 1, 0, {})

\* Mutant of transformShortcuts: the selected node comes before the
\* right-clicked one.
transformShortcutsPreferSelected(key) ==
    LET nodeIndex == IF selectedCallNodeIndex # null
                     THEN selectedCallNodeIndex
                     ELSE rightClickedCallNodeIndex
    IN  IF nodeIndex = null
        THEN Outcome(<<>>, 0, 0, {})
        ELSE IF key = "Enter"
             THEN onCallNodeEnterOrDoubleClick(nodeIndex)
             ELSE Outcome(<<handleCallNodeTransformShortcut(key, nodeIndex)>>, 0, 0, {})

\* The tail of _handleKeyDown: Enter and the transform shortcuts.
transformShortcuts(key) ==
    LET nodeIndex == IF rightClickedCallNodeIndex # null
                     THEN rightClickedCallNodeIndex
                     ELSE selectedCallNodeIndex
    IN  IF nodeIndex = null
        THEN Outcome(<<>>, 0, 0, {})
        ELSE IF key = "Enter"
             THEN onCallNodeEnterOrDoubleClick(nodeIndex)
             ELSE Outcome(<<handleCallNodeTransformShortcut(key, nodeIndex)>>, 0, 0, {})

\* Mutant of handleKeyDown: with no selection the path of the selection is
\* dispatched, not the path of call node 0.
handleKeyDownSelectsSelection(key) ==
    IF key \in ArrowKeys
    THEN IF selectedCallNodeIndex = null
         THEN Outcome(<<changeSelectedCallNode(
                            getCallNodePathFromIndex(selectedCallNodeIndex,
                                                     callNodeTable))>>, 0, 0, {})
         ELSE arrowSwitch(key)
    ELSE transformShortcuts(key)

\* Mutant of handleKeyDown: the arrow-key block lacks its final return and
\* falls through to the shortcut handling.
handleKeyDownFallingThrough(key) ==
    IF key \in ArrowKeys
    THEN IF selectedCallNodeIndex = null
         THEN Outcome(<<changeSelectedCallNode(
                            getCallNodePathFromIndex(0, callNodeTable))>>, 0, 0, {})
         ELSE LET arrows == arrowSwitch(key)
                  tail == transformShortcuts(key)
              IN  Outcome(arrows.dispatched \o tail.dispatched,
                          arrows.consoleErrors + tail.consoleErrors,
                          arrows.scanSteps, arrows.consulted \cup tail.consulted)
    ELSE transformShortcuts(key)

handleKeyDown(key) ==
    IF key \in ArrowKeys
    THEN IF selectedCallNodeIndex = null
         THEN Outcome(<<changeSelectedCallNode(
                            getCallNodePathFromIndex(0, callNodeTable))>>, 0, 0, {})
         ELSE arrowSwitch(key)
    ELSE transformShortcuts(key)

onSelectedCallNodeChange(callNodeIndex) ==
    Outcome(<<changeSelectedCallNode(
                  getCallNodePathFromIndex(callNodeIndex, callNodeTable))>>, 0, 0, {})

onRightClickedCallNodeChange(callNodeIndex) ==
    Outcome(<<changeRightClickedCallNode(
                  getCallNodePathFromIndex(callNodeIndex, callNodeTable))>>, 0, 0, {})

(***************************************************************************)
(* The store: a dispatched path becomes the next selected or right-clicked *)
(* call node of the props.  The other two actions leave both alone in the  *)
(* model (a transform would replace the whole profile data).               *)
(***************************************************************************)
RECURSIVE indexAfter(_, _, _)
indexAfter(type, actions, current) ==
    IF actions = <<>> THEN current
    ELSE indexAfter(type, Tail(actions),
                    IF Head(actions).type = type
                    THEN getCallNodeIndexFromPath(Head(actions).path, callNodeTable)
                    ELSE current)

NoMove == [key |-> "", from |-> null, to |-> null]

\* The horizontal move the last callback made, if it made one.
MoveOf(event, actions, selected) ==
    IF /\ event.handler = "_handleKeyDown"
       /\ event.key \in {"ArrowLeft", "ArrowRight"}
       /\ event.selected # null
       /\ actions # <<>>
    THEN [key |-> event.key, from |-> event.selected, to |-> selected]
    ELSE NoMove

\* A callback ran with `outcome`: record it and let the store react.
Ran(event, outcome) ==
    /\ lastEvent' = event
    /\ dispatched' = outcome.dispatched
    /\ consoleErrors' = outcome.consoleErrors
    /\ scanSteps' = outcome.scanSteps
    /\ consulted' = outcome.consulted
    /\ selectedCallNodeIndex' =
           indexAfter("changeSelectedCallNode", outcome.dispatched, selectedCallNodeIndex)
    /\ rightClickedCallNodeIndex' =
           indexAfter("changeRightClickedCallNode", outcome.dispatched,
                      rightClickedCallNodeIndex)
    /\ previousMove' = MoveOf(lastEvent, dispatched, selectedCallNodeIndex)
    /\ UNCHANGED <<callNodeTable, flameGraphTiming, stackVars>>

Event(handler, key, callNode, selected, rightClicked) ==
    [handler |-> handler, key |-> key, callNode |-> callNode,
     selected |-> selected, rightClicked |-> rightClicked]

NoEvent == Event("", "", null, null, null)

\* onKeyDown of the flame graph's <div>
KeyDown(key) ==
    Ran(Event("_handleKeyDown", key, null, selectedCallNodeIndex,
              rightClickedCallNodeIndex),
        handleKeyDown(key))

\* onSelectionChange of the canvas
SelectionChange(callNodeIndex) ==
    Ran(Event("_onSelectedCallNodeChange", "", callNodeIndex, null, null),
        onSelectedCallNodeChange(callNodeIndex))

\* onRightClick of the canvas
RightClick(callNodeIndex) ==
    Ran(Event("_onRightClickedCallNodeChange", "", callNodeIndex, null, null),
        onRightClickedCallNodeChange(callNodeIndex))

\* onDoubleClick of the canvas
DoubleClick(callNodeIndex) ==
    Ran(Event("_onCallNodeEnterOrDoubleClick", "", callNodeIndex, null, null),
        onCallNodeEnterOrDoubleClick(callNodeIndex))

NodeOrNull == CallNodes(callNodeTable) \cup {null}

Init ==
    /\ callNodeTable \in CallNodeTables(1)
    /\ flameGraphTiming \in FlameGraphTimings(callNodeTable)
    /\ selectedCallNodeIndex = null
    /\ rightClickedCallNodeIndex = null
    /\ lastEvent = NoEvent
    /\ dispatched = <<>>
    /\ consoleErrors = 0
    /\ scanSteps = 0
    /\ consulted = {}
    /\ previousMove = NoMove
    /\ sampleCallNodes = <<>>
    /\ maxValue = null
    /\ lastHeight = <<>>

\* Keyboard navigation: the arrow keys, and selections made elsewhere.
Next ==
    \/ \E key \in ArrowKeys : KeyDown(key)
    \/ \E n \in NodeOrNull : SelectionChange(n)

Spec == Init /\ [][Next]_vars

(***************************************************************************)
(* All keys and the mouse callbacks.  The tail of _handleKeyDown reads no  *)
(* timing, so this specification varies the right-clicked node and keeps   *)
(* to the flame graphs in which every node has a box, siblings in table    *)
(* order.                                                                  *)
(***************************************************************************)
\* The flame graphs in which every node has a box and the children of one
\* parent, and the roots, stand in table order.
FullFlameGraphTimings(table) ==
    {timing \in FlameGraphTimings(table) :
        /\ \A n \in CallNodes(table) : BoxColumn(table, timing, n) # -1
        /\ \A a, b \in CallNodes(table) :
               (table.prefix[a + 1] = table.prefix[b + 1] /\ a < b) =>
                   BoxColumn(table, timing, a) < BoxColumn(table, timing, b)}

InitShortcuts ==
    /\ callNodeTable \in CallNodeTables(1)
    /\ flameGraphTiming \in FullFlameGraphTimings(callNodeTable)
    /\ selectedCallNodeIndex = null
    /\ rightClickedCallNodeIndex = null
    /\ lastEvent = NoEvent
    /\ dispatched = <<>>
    /\ consoleErrors = 0
    /\ scanSteps = 0
    /\ consulted = {}
    /\ previousMove = NoMove
    /\ sampleCallNodes = <<>>
    /\ maxValue = null
    /\ lastHeight = <<>>

NextShortcuts ==
    \/ \E key \in Keys : KeyDown(key)
    \/ \E n \in NodeOrNull : SelectionChange(n)
    \/ \E n \in NodeOrNull : RightClick(n)
    \/ \E n \in NodeOrNull : DoubleClick(n)

SpecShortcuts == InitShortcuts /\ [][NextShortcuts]_vars

(***************************************************************************)
(* ThreadStackGraph.                                                       *)
(***************************************************************************)
heightFunction(sampleIndex) ==
    LET callNodeIndex == At(sampleCallNodes, sampleIndex)
    IN  IF callNodeIndex = null
        THEN null
        ELSE At(callNodeTable.depth, callNodeIndex)

\* Mutant of maxDepthLoop: each depth replaces the maximum, without the test.
RECURSIVE maxDepthLoopWithoutTest(_, _)
maxDepthLoopWithoutTest(i, maxDepth) ==
    IF i < Len(callNodeTable.depth)
    THEN maxDepthLoopWithoutTest(i + 1, At(callNodeTable.depth, i))
    ELSE maxDepth

\* The for loop of render, from index i with the maximum found so far.
RECURSIVE maxDepthLoop(_, _)
maxDepthLoop(i, maxDepth) ==
    IF i < Len(callNodeTable.depth)
    THEN maxDepthLoop(i + 1, IF At(callNodeTable.depth, i) > maxDepth
                             THEN At(callNodeTable.depth, i)
                             ELSE maxDepth)
    ELSE maxDepth

renderMaxDepth == maxDepthLoop(0, 0)

\* render: the maxValue prop of ThreadHeightGraph
Render ==
    /\ maxValue' = renderMaxDepth
    /\ UNCHANGED <<callNodeTable, flameVars, sampleCallNodes, lastHeight>>

\* ThreadHeightGraph calls heightFunc for a sample it draws
HeightFunc(sampleIndex) ==
    /\ lastHeight' = <<sampleIndex, heightFunction(sampleIndex)>>
    /\ UNCHANGED <<callNodeTable, flameVars, sampleCallNodes, maxValue>>

RECURSIVE SampleColumns(_, _)
SampleColumns(table, n) ==
    IF n = 0 THEN {<<>>}
    ELSE {Append(c, x) : c \in SampleColumns(table, n - 1),
                         x \in CallNodes(table) \cup {null}}

InitStack ==
    /\ callNodeTable \in CallNodeTables(0)
    /\ sampleCallNodes \in UNION {SampleColumns(callNodeTable, n) : n \in 0..MaxSamples}
    /\ maxValue = null
    /\ lastHeight = <<>>
    /\ flameGraphTiming = <<>>
    /\ selectedCallNodeIndex = null
    /\ rightClickedCallNodeIndex = null
    /\ lastEvent = NoEvent
    /\ dispatched = <<>>
    /\ consoleErrors = 0
    /\ scanSteps = 0
    /\ consulted = {}
    /\ previousMove = NoMove

NextStack ==
    \/ Render
    \/ \E i \in 0..(Len(sampleCallNodes) - 1) : HeightFunc(i)

SpecStack == InitStack /\ [][NextStack]_vars

(***************************************************************************)
(* Vocabulary of the properties, stated on the data itself and not through *)
(* the operators of the components.                                        *)
(***************************************************************************)
KeyPressed(key) == lastEvent.handler = "_handleKeyDown" /\ lastEvent.key = key

ArrowPressed == lastEvent.handler = "_handleKeyDown" /\ lastEvent.key \in ArrowKeys

\* The row of flameGraphTiming for the depth of node n.
RowOfNode(n) == flameGraphTiming[callNodeTable.depth[n + 1] + 1]

HasBox(n) == \E i \in 1..Len(RowOfNode(n).callNode) : RowOfNode(n).callNode[i] = n

\* The column of n in its row, counted from 1.
ColumnOf(n) == CHOOSE i \in 1..Len(RowOfNode(n).callNode) : RowOfNode(n).callNode[i] = n

WideColumn(row, i) == row.end[i] - row.start[i] > SELECTABLE_THRESHOLD

\* end - start > SELECTABLE_THRESHOLD for n in its row
WiderThanThreshold(n) == HasBox(n) /\ WideColumn(RowOfNode(n), ColumnOf(n))

\* The wide columns of n's row strictly on one side of n.
WideColumnsBeside(n, direction) ==
    {i \in 1..Len(RowOfNode(n).callNode) :
        /\ WideColumn(RowOfNode(n), i)
        /\ IF direction = -1 THEN i < ColumnOf(n) ELSE i > ColumnOf(n)}

NearestWideBeside(n, direction) ==
    LET cols == WideColumnsBeside(n, direction)
        col == CHOOSE i \in cols :
                   \A j \in cols : IF direction = -1 THEN j <= i ELSE j >= i
    IN  RowOfNode(n).callNode[col]

\* The path of node n: the functions of its ancestors and its own.
RECURSIVE PathOf(_)
PathOf(n) ==
    IF callNodeTable.prefix[n + 1] = -1
    THEN <<callNodeTable.func[n + 1]>>
    ELSE Append(PathOf(callNodeTable.prefix[n + 1]), callNodeTable.func[n + 1])

SelectionOf(n) ==
    [type |-> "changeSelectedCallNode", path |-> PathOf(n), callNode |-> null, key |-> ""]

\* The nodes a changeSelectedCallNode action of the last callback names.
NodesSelectedByLastCallback ==
    {n \in CallNodes(callNodeTable) :
        \E i \in 1..Len(dispatched) : dispatched[i] = SelectionOf(n)}

(***************************************************************************)
(* Properties of the keyboard navigation.                                  *)
(***************************************************************************)
\* C1: whenever an arrow key dispatches changeSelectedCallNode, the node it
\* selects has a box wider than SELECTABLE_THRESHOLD in its row, whatever the
\* selection (null or a node) and the timing were.
C1_ArrowKeysSelectOnlyWideBoxes ==
    ArrowPressed => \A n \in NodesSelectedByLastCallback : WiderThanThreshold(n)

\* C2: for a starting node standing in its row and either direction,
\* _nextSelectableInRow returns the node of the nearest column strictly on
\* that side whose box is wider than SELECTABLE_THRESHOLD, and undefined when
\* there is none; for every starting node it returns neither that node nor a
\* node of another depth.
C2_NextSelectableIsNearestWide ==
    \A start \in CallNodes(callNodeTable) : \A direction \in {-1, 1} :
        LET found == nextSelectableInRow(start, direction).callNodeIndex
        IN  /\ found # start
            /\ found # undefined =>
                   /\ found \in CallNodes(callNodeTable)
                   /\ callNodeTable.depth[found + 1] = callNodeTable.depth[start + 1]
                   /\ WiderThanThreshold(found)
            /\ HasBox(start) =>
                   IF WideColumnsBeside(start, direction) = {}
                   THEN found = undefined
                   ELSE found = NearestWideBeside(start, direction)

\* A press of ArrowLeft that passed over a narrow box to reach a wide one.
C2_Witness ==
    /\ KeyPressed("ArrowLeft")
    /\ lastEvent.selected # null
    /\ scanSteps = 2
    /\ dispatched # <<>>
    /\ selectedCallNodeIndex = NearestWideBeside(lastEvent.selected, -1)

C4_ShortcutsActOnRightClickedThenSelected ==
    (lastEvent.handler = "_handleKeyDown" /\ lastEvent.key \notin ArrowKeys) =>
        LET target == IF lastEvent.rightClicked # null
                      THEN lastEvent.rightClicked
                      ELSE lastEvent.selected
        IN  /\ selectedCallNodeIndex = lastEvent.selected
            /\ rightClickedCallNodeIndex = lastEvent.rightClicked
            /\ consoleErrors = 0
            /\ IF target = null
               THEN dispatched = <<>>
               ELSE IF lastEvent.key = "Enter"
                    THEN dispatched =
                             <<[type |-> "updateBottomBoxContentsAndMaybeOpen",
                                path |-> <<>>, callNode |-> target,
                                key |-> "flame-graph"]>>
                    ELSE dispatched =
                             <<[type |-> "handleCallNodeTransformShortcut",
                                path |-> <<>>, callNode |-> target,
                                key |-> lastEvent.key]>>

\* A transform shortcut pressed while one node is selected and another one
\* is right-clicked.
C4_Witness ==
    /\ KeyPressed("f")
    /\ lastEvent.selected # null
    /\ lastEvent.rightClicked # null
    /\ lastEvent.selected # lastEvent.rightClicked
    /\ dispatched # <<>>
    /\ dispatched[1].callNode = lastEvent.rightClicked

\* C5: with a selection, ArrowUp selects the first element of
\* callTree.getChildren(selected), whose box no box of another child
\* exceeds, and only if that box is wider than SELECTABLE_THRESHOLD; with no
\* children, or a first child that is too narrow or has no box, nothing is
\* dispatched and the selection stays.  No other child is selected.
C5_ArrowUpSelectsFirstChildIfWide ==
    (KeyPressed("ArrowUp") /\ lastEvent.selected # null) =>
        LET children == {c \in CallNodes(callNodeTable) :
                            callNodeTable.prefix[c + 1] = lastEvent.selected}
            width(c) == IF HasBox(c)
                        THEN LET row == RowOfNode(c)
                             IN  row.end[ColumnOf(c)] - row.start[ColumnOf(c)]
                        ELSE 0
            first == CHOOSE c \in children :
                         \A d \in children \ {c} :
                             width(c) > width(d) \/ (width(c) = width(d) /\ c < d)
        IN  /\ consoleErrors = 0
            /\ IF children # {} /\ WiderThanThreshold(first)
               THEN /\ dispatched = <<SelectionOf(first)>>
                    /\ selectedCallNodeIndex = first
               ELSE /\ dispatched = <<>>
                    /\ selectedCallNodeIndex = lastEvent.selected

\* ArrowUp moved to the wider of two children that both have a box.
C5_Witness ==
    /\ KeyPressed("ArrowUp")
    /\ lastEvent.selected # null
    /\ dispatched # <<>>
    /\ \E c \in CallNodes(callNodeTable) :
           /\ c # selectedCallNodeIndex
           /\ callNodeTable.prefix[c + 1] = lastEvent.selected
           /\ HasBox(c)
           /\ ~WiderThanThreshold(c)

C7_ArrowKeysOnlyChangeSelection ==
    ArrowPressed =>
        /\ Len(dispatched) <= 1
        /\ \A i \in 1..Len(dispatched) : dispatched[i].type = "changeSelectedCallNode"
        /\ consoleErrors = 0
        /\ rightClickedCallNodeIndex = lastEvent.rightClicked

\* An arrow key pressed on a selected node while another node is
\* right-clicked, which dispatched nothing.
C7_Witness ==
    /\ ArrowPressed
    /\ lastEvent.selected # null
    /\ lastEvent.rightClicked # null
    /\ lastEvent.rightClicked # lastEvent.selected
    /\ dispatched = <<>>

\* C9: if the selected node n has a box wider than SELECTABLE_THRESHOLD and
\* ArrowLeft changes the selection to m, ArrowRight pressed next changes it
\* back to n; and the same with left and right exchanged.
C9_HorizontalMoveIsReversible ==
    \A pair \in {<<"ArrowLeft", "ArrowRight">>, <<"ArrowRight", "ArrowLeft">>} :
        (/\ previousMove.key = pair[1]
         /\ WiderThanThreshold(previousMove.from)
         /\ KeyPressed(pair[2])
         /\ lastEvent.selected = previousMove.to) =>
            /\ dispatched = <<SelectionOf(previousMove.from)>>
            /\ selectedCallNodeIndex = previousMove.from

\* ArrowLeft from a wide box over a narrow one, then ArrowRight back over it.
C9_Witness ==
    /\ previousMove.key = "ArrowLeft"
    /\ WiderThanThreshold(previousMove.from)
    /\ KeyPressed("ArrowRight")
    /\ lastEvent.selected = previousMove.to
    /\ scanSteps = 2
    /\ selectedCallNodeIndex = previousMove.from

\* C10: the loop of _nextSelectableInRow ends after at most row length + 1
\* iterations, for either direction and every starting node, be it in the
\* first or last column or in no column of its row, and whatever the widths.
C10_ScanEndsWithinRowLengthPlusOne ==
    (/\ lastEvent.handler = "_handleKeyDown"
     /\ lastEvent.key \in {"ArrowLeft", "ArrowRight"}
     /\ lastEvent.selected # null) =>
        /\ scanSteps >= 1
        /\ scanSteps <= Len(RowOfNode(lastEvent.selected).callNode) + 1

\* ArrowRight from a node without a box, in a row of narrow boxes: the loop
\* visits every column and the one after the last.
C10_Witness ==
    /\ KeyPressed("ArrowRight")
    /\ lastEvent.selected # null
    /\ ~HasBox(lastEvent.selected)
    /\ Len(RowOfNode(lastEvent.selected).callNode) >= 1
    /\ scanSteps = Len(RowOfNode(lastEvent.selected).callNode) + 1
    /\ dispatched = <<>>

(***************************************************************************)
(* Properties of the stack graph.                                          *)
(***************************************************************************)
\* C8: the height of a sample is null exactly when its call node is null and
\* else the depth of its call node; maxValue is the greatest depth of the
\* table, 0 for an empty table; so a sample with a call node has
\* 0 <= height <= maxValue.
C8_HeightWithinMaxValue ==
    /\ maxValue # null =>
           /\ \A n \in CallNodes(callNodeTable) : callNodeTable.depth[n + 1] <= maxValue
           /\ \/ maxValue = 0 /\ callNodeTable.length = 0
              \/ \E n \in CallNodes(callNodeTable) : callNodeTable.depth[n + 1] = maxValue
    /\ lastHeight # <<>> =>
           LET callNodeIndex == sampleCallNodes[lastHeight[1] + 1]
               height == lastHeight[2]
           IN  /\ height = null <=> callNodeIndex = null
               /\ callNodeIndex # null =>
                      /\ height = callNodeTable.depth[callNodeIndex + 1]
                      /\ height >= 0
                      /\ maxValue # null => height <= maxValue

\* A sample of the deepest node was drawn after render: height = maxValue > 0.
C8_Witness ==
    /\ maxValue # null
    /\ maxValue > 0
    /\ lastHeight # <<>>
    /\ lastHeight[2] = maxValue

====
